---- MODULE Spec2Model ----
(***************************************************************************)
(* Model of ShapeNode::layout (src/library/graphics/shape.rs): the sizing  *)
(* of square / rect / circle / ellipse shapes, with or without a child,    *)
(* and the composition of fill, stroke, outset and radius into the frame.  *)
(*                                                                         *)
(* Units: a Length is an integer number of 1/1000 pt, a Ratio an integer   *)
(* number of 1/1000000 (so 50% is 500000).  Option<T> is the empty set     *)
(* (None) or a singleton (Some).  Vec<Arc<Frame>> is a sequence.           *)
(***************************************************************************)
EXTENDS Integers, Sequences, FiniteSets, TLC

\* ------------------------------------------------------------------ bounds
NumLengths == 5
NumChildLengths == 3
NumRelatives == 4

\* ------------------------------------------------------------- shape kinds
SQUARE == 0
RECT == 1
CIRCLE == 2
ELLIPSE == 3

ShapeKind == {SQUARE, RECT, CIRCLE, ELLIPSE}

is_round(kind) == kind \in {CIRCLE, ELLIPSE}

is_quadratic(kind) == kind \in {SQUARE, CIRCLE}

\* ------------------------------------------------------- lengths and sizes
Pt(n) == n * 1000

Percent(n) == n * 10000

\* 0.5 - SQRT_2 / 4.0 = 0.146446609..., in units of 1/1000000
RoundInsetRatio == 146447

Max(a, b) == IF a >= b THEN a ELSE b

Min(a, b) == IF a <= b THEN a ELSE b

Size(x, y) == [x |-> x, y |-> y]

SizeSplat(v) == Size(v, v)

SizeZero == Size(0, 0)

SizeMin(a, b) == Size(Min(a.x, b.x), Min(a.y, b.y))

\* Spec<bool>::select: per axis, the first value where the flag is set
Select(expand, a, b) ==
    Size(IF expand.x THEN a.x ELSE b.x, IF expand.y THEN a.y ELSE b.y)

SidesOf(l, t, r, b) == [left |-> l, top |-> t, right |-> r, bottom |-> b]

SidesSplat(v) == SidesOf(v, v, v, v)

SideNames == {"left", "top", "right", "bottom"}

Side(s, n) ==
    CASE n = "left" -> s.left
      [] n = "top" -> s.top
      [] n = "right" -> s.right
      [] n = "bottom" -> s.bottom

\* Sides::is_uniform
is_uniform(s) == s.left = s.top /\ s.top = s.right /\ s.right = s.bottom

Relative(rel, abs) == [rel |-> rel, abs |-> abs]

RelativeZero == Relative(0, 0)

\* Relative::relative_to: rel * whole + abs (the product is split so that
\* every intermediate value stays within 32 bits)
relative_to(r, whole) ==
    (((r.rel \div 1000) * whole + ((r.rel % 1000) * whole) \div 1000) \div 1000)
        + r.abs

\* ------------------------------------------------------------------ strokes
\* Stroke::default(): black, 1pt
StrokeDefault == [paint |-> "black", thickness |-> Pt(1)]

RawStroke(paint, thickness) == [paint |-> paint, thickness |-> thickness]

\* RawStroke::unwrap_or_default: unset fields take the default stroke's value
unwrap_or_default(raw) ==
    [paint |-> IF raw.paint = {} THEN StrokeDefault.paint
               ELSE CHOOSE p \in raw.paint : TRUE,
     thickness |-> IF raw.thickness = {} THEN StrokeDefault.thickness
                   ELSE CHOOSE t \in raw.thickness : TRUE]

\* Option<RawStroke>::map(RawStroke::unwrap_or_default)
UnwrapSide(s) == {unwrap_or_default(raw) : raw \in s}


\* Smart<T>
SmartAuto == [auto |-> TRUE, custom |-> SidesSplat({})]

SmartCustom(v) == [auto |-> FALSE, custom |-> v]

\* ------------------------------------------------------------------ regions
Regions(first, base, expand) == [first |-> first, base |-> base, expand |-> expand]

\* Regions::one(regions.first, regions.base, regions.expand)
RegionsOne(first, base, expand) == Regions(first, base, expand)

\* ------------------------------------------------------------------- frames
Point(x, y) == [x |-> x, y |-> y]

\* Frame::new
FrameNew(size) == [size |-> size, elements |-> <<>>, link |-> {}]

\* Frame::prepend
FramePrepend(frame, pos, elem) ==
    [frame EXCEPT !.elements = <<[pos |-> pos, elem |-> elem]>> \o @]

\* Frame::link
FrameLink(frame, url) == [frame EXCEPT !.link = {url}]

\* ------------------------------------------------------------- input ranges
LengthSamples ==
    <<Pt(100), Pt(200), Pt(500), Pt(40), Pt(20), Pt(0), Pt(60), Pt(300)>>

Lengths == {LengthSamples[i] : i \in 1..Min(NumLengths, Len(LengthSamples))}

ChildLengthSamples == <<Pt(60), Pt(250), Pt(10), Pt(150), Pt(0)>>

ChildLengths ==
    {ChildLengthSamples[i] : i \in 1..Min(NumChildLengths, Len(ChildLengthSamples))}

RelativeSamples ==
    <<RelativeZero, Relative(0, Pt(10)), Relative(Percent(50), 0),
      Relative(0, -Pt(10)), Relative(Percent(10), Pt(5)),
      Relative(-Percent(10), 0)>>

Relatives ==
    {RelativeSamples[i] : i \in 1..Min(NumRelatives, Len(RelativeSamples))}

Sizes == {Size(x, y) : x \in Lengths, y \in Lengths}

Expands == {Size(ex, ey) : ex \in BOOLEAN, ey \in BOOLEAN}

Errors == {"E1", "E2"}

RawStrokes == {RawStroke({}, {}), RawStroke({"red"}, {Pt(2)})}

StrokeSides ==
    {SidesOf(l, t, r, b) : l \in {{}} \cup {{s} : s \in RawStrokes},
                           t \in {{}} \cup {{s} : s \in RawStrokes},
                           r \in {{}} \cup {{s} : s \in RawStrokes},
                           b \in {{}} \cup {{s} : s \in RawStrokes}}

Strokes == {SmartAuto} \cup {SmartCustom(s) : s \in StrokeSides}

Styles(fill, stroke, inset, outset, radius, link) ==
    [fill |-> fill, stroke |-> stroke, inset |-> inset, outset |-> outset,
     radius |-> radius, link |-> link]

\* The property defaults of lines 25-40
DefaultStyles ==
    Styles({}, SmartAuto, SidesSplat(RelativeZero), SidesSplat(RelativeZero),
           SidesSplat(RelativeZero), {})

\* -------------------------------------------------------------------- state
VARIABLES
    kind,       \* S, the shape kind of the node
    child,      \* self.0 is Some
    regions,    \* the regions argument
    styles,     \* the style chain's resolved values
    pc,         \* position in layout: start, pass1, pass2, compose, done, failed
    padding,    \* the inset the child was padded with (line 107), as an Option
    pod,        \* the local pod
    calls,      \* the child.layout calls made so far, with their outcome
    frames,     \* the local frames
    stroke,     \* the local stroke (line 153)
    outset,     \* the resolved outset (line 162)
    size,       \* the post-outset size (line 169)
    radius,     \* the resolved radius (line 175)
    returned,   \* Ok(frames) handed to the caller
    error       \* Err(e) handed to the caller, as an Option

vars ==
    <<kind, child, regions, styles, pc, padding, pod, calls, frames, stroke,
      outset, size, radius, returned, error>>

inputs == <<kind, child, regions, styles>>

locals == <<stroke, outset, size, radius>>

\* ------------------------------------------------- the sizing rules (pure)
\* Mutant: the smaller axis of the expand-target instead of the larger
ExpandLengthMin(rg) ==
    LET target == Select(rg.expand, rg.first, SizeZero)
    IN  Min(target.x, target.y)

\* Lines 115-117 and 135-137: the side length when an axis expands
ExpandLength(rg) ==
    LET target == Select(rg.expand, rg.first, SizeZero)
    IN  Max(target.x, target.y)

\* Mutant: the smaller measured dimension instead of the larger
MeasuredLengthMin(rg, measured) ==
    LET desired == Min(measured.x, measured.y)
    IN  Min(Min(desired, rg.first.x), rg.first.y)

\* Lines 119-121: the side length measured from the first pass
MeasuredLength(rg, measured) ==
    LET desired == Max(measured.x, measured.y)
    IN  Min(Min(desired, rg.first.x), rg.first.y)

\* Lines 115-122
ChildLength(rg, measured) ==
    IF rg.expand.x \/ rg.expand.y
    THEN ExpandLength(rg)
    ELSE MeasuredLength(rg, measured)

\* Mutant: the default size is not clipped to the region
NaturalSizeUnclipped(rg) == Size(Pt(45), Pt(30))

\* Lines 131-132: the default size of a shape without a child
NaturalSize(rg) == SizeMin(Size(Pt(45), Pt(30)), rg.first)

\* Lines 134-144
EmptySize(k, rg) ==
    LET natural == NaturalSize(rg)
    IN  IF is_quadratic(k)
        THEN SizeSplat(IF rg.expand.x \/ rg.expand.y
                       THEN ExpandLength(rg)
                       ELSE Min(natural.x, natural.y))
        ELSE Select(rg.expand, rg.first, natural)

\* Mutant: the correction is applied to the quadratic kinds
ChildInsetQuadratic(k, st) ==
    IF is_quadratic(k)
    THEN [n \in SideNames |-> [Side(st.inset, n) EXCEPT !.rel = @ + RoundInsetRatio]]
    ELSE st.inset

\* Lines 98-104: the inset of the child, with the correction for round shapes
AddRoundRatio(side) == [side EXCEPT !.rel = @ + RoundInsetRatio]

ChildInset(k, st) ==
    IF is_round(k)
    THEN SidesOf(AddRoundRatio(st.inset.left), AddRoundRatio(st.inset.top),
                 AddRoundRatio(st.inset.right), AddRoundRatio(st.inset.bottom))
    ELSE st.inset

\* Mutant: the second pass expands without forcing the region square
SquarePodExpandOnly(p, length) == [p EXCEPT !.expand = Size(TRUE, TRUE)]

\* Lines 124-125: the pod of the second pass
SquarePod(p, length) ==
    [p EXCEPT !.first = SizeSplat(length), !.expand = Size(TRUE, TRUE)]

\* The sizes a child layout may answer for a pod: an expanding axis is
\* filled exactly, the other axis takes the content's size, which may
\* overflow the region.
ChildSizes(p) ==
    {Size(x, y) : x \in (IF p.expand.x THEN {p.first.x} ELSE ChildLengths),
                  y \in (IF p.expand.y THEN {p.first.y} ELSE ChildLengths)}

\* The frame a child layout answers; pass tells the two layouts apart
ChildFrame(sz, pass) ==
    [size |-> sz,
     elements |-> <<[pos |-> Point(0, 0), elem |-> [tag |-> "Child", pass |-> pass]]>>,
     link |-> {}]

Call(p, pad, outcome) == [pod |-> p, padding |-> pad, outcome |-> outcome]

\* ------------------------------------------------- the compositor (pure)
\* Mutant: a side given as none takes the default stroke
ResolveStrokeSubstituting(st) ==
    IF st.stroke.auto
    THEN IF st.fill = {} THEN SidesSplat({StrokeDefault}) ELSE SidesSplat({})
    ELSE [n \in SideNames |->
             IF Side(st.stroke.custom, n) = {}
             THEN {StrokeDefault}
             ELSE UnwrapSide(Side(st.stroke.custom, n))]

\* Lines 153-159
ResolveStroke(st) ==
    IF st.stroke.auto
    THEN IF st.fill = {} THEN SidesSplat({StrokeDefault}) ELSE SidesSplat({})
    ELSE SidesOf(UnwrapSide(st.stroke.custom.left), UnwrapSide(st.stroke.custom.top),
                 UnwrapSide(st.stroke.custom.right), UnwrapSide(st.stroke.custom.bottom))

\* Mutant: the sign of the outset is flipped
ResolveOutsetNegated(st, frame) ==
    SidesOf(-relative_to(st.outset.left, frame.size.x),
            -relative_to(st.outset.top, frame.size.y),
            -relative_to(st.outset.right, frame.size.x),
            -relative_to(st.outset.bottom, frame.size.y))

\* Lines 161-167
ResolveOutset(st, frame) ==
    SidesOf(relative_to(st.outset.left, frame.size.x),
            relative_to(st.outset.top, frame.size.y),
            relative_to(st.outset.right, frame.size.x),
            relative_to(st.outset.bottom, frame.size.y))

\* Lines 169-172
OutsetSize(frame, o) ==
    Size(frame.size.x + o.left + o.right, frame.size.y + o.top + o.bottom)

\* Mutant: the radius is resolved against the whole size, not half of it
ResolveRadiusWhole(st, sz) ==
    SidesOf(relative_to(st.radius.left, sz.x),
            relative_to(st.radius.top, sz.y),
            relative_to(st.radius.right, sz.x),
            relative_to(st.radius.bottom, sz.y))

\* Lines 174-180
ResolveRadius(st, sz) ==
    SidesOf(relative_to(st.radius.left, sz.x \div 2),
            relative_to(st.radius.top, sz.y \div 2),
            relative_to(st.radius.right, sz.x \div 2),
            relative_to(st.radius.bottom, sz.y \div 2))

\* Mutant: any stroke side suffices, uniform or not
EmitsAnyStroke(fill, s) == fill # {} \/ \E n \in SideNames : Side(s, n) # {}

\* Line 182
AnyStroke(s) == \E n \in SideNames : Side(s, n) # {}

Emits(fill, s) == fill # {} \/ (AnyStroke(s) /\ is_uniform(s))

\* Lines 183-187
ShapeGeometry(k, sz, r) ==
    IF is_round(k)
    THEN [tag |-> "Ellipse", size |-> sz]
    ELSE [tag |-> "Rect", size |-> sz, radius |-> r]

\* Line 189
Shape(geometry, fill, s) ==
    [tag |-> "Shape", geometry |-> geometry, fill |-> fill, stroke |-> s]

\* Lines 182-191
WithShape(frame, k, fill, s, o, sz, r) ==
    IF Emits(fill, s)
    THEN FramePrepend(frame, Point(-o.left, -o.top),
                      Shape(ShapeGeometry(k, sz, r), fill, s))
    ELSE frame

\* Lines 194-196
WithLink(frame, st) ==
    IF st.link # {} THEN FrameLink(frame, CHOOSE u \in st.link : TRUE) ELSE frame

\* ------------------------------------------------------------ initial states
AllRegions ==
    {Regions(first, base, expand) :
        first \in Sizes, base \in {Size(Pt(500), Pt(500)), Size(Pt(100), Pt(50))},
        expand \in Expands}

StyleRegions ==
    {Regions(Size(Pt(200), Pt(100)), Size(Pt(200), Pt(100)), Size(TRUE, TRUE)),
     Regions(Size(Pt(100), Pt(100)), Size(Pt(500), Pt(500)), Size(TRUE, FALSE)),
     Regions(Size(Pt(100), Pt(100)), Size(Pt(500), Pt(500)), Size(FALSE, FALSE))}

SizingStyles ==
    {DefaultStyles,
     Styles({"red"}, SmartAuto, SidesSplat(Relative(0, Pt(5))),
            SidesSplat(Relative(0, Pt(10))), SidesSplat(Relative(Percent(50), 0)),
            {"url"})}

StrokeStyles ==
    {Styles(fill, st, SidesSplat(RelativeZero), SidesSplat(RelativeZero),
            SidesSplat(RelativeZero), {}) :
        fill \in {{}, {"red"}}, st \in Strokes}

RelativeSides == {SidesOf(a, b, b, a) : a \in Relatives, b \in Relatives}

GeometryStyles ==
    {Styles({}, SmartAuto, i, o, SidesSplat(r), {}) :
        i \in RelativeSides, o \in RelativeSides, r \in Relatives}

InitWith(regionSet, styleSet) ==
    /\ kind \in ShapeKind
    /\ child \in BOOLEAN
    /\ regions \in regionSet
    /\ styles \in styleSet
    /\ pc = "start"
    /\ padding = {}
    /\ pod = Regions(SizeZero, SizeZero, Size(FALSE, FALSE))
    /\ calls = <<>>
    /\ frames = <<>>
    /\ stroke = SidesSplat({})
    /\ outset = SidesSplat(0)
    /\ size = SizeZero
    /\ radius = SidesSplat(0)
    /\ returned = <<>>
    /\ error = {}

Init == InitWith(AllRegions, SizingStyles)

InitStroke == InitWith(StyleRegions, StrokeStyles)

InitGeometry == InitWith(StyleRegions, GeometryStyles)

\* ------------------------------------------------------------------ actions
\* Lines 97-109: pad the child and build the pod of the first pass
BeginChild ==
    /\ pc = "start"
    /\ child
    /\ padding' = {ChildInset(kind, styles)}
    /\ pod' = RegionsOne(regions.first, regions.base, regions.expand)
    /\ pc' = "pass1"
    /\ UNCHANGED <<inputs, locals, calls, frames, returned, error>>

\* Lines 128-147: a shape without a child
BeginEmpty ==
    /\ pc = "start"
    /\ ~child
    /\ frames' = <<FrameNew(EmptySize(kind, regions))>>
    /\ pc' = "compose"
    /\ UNCHANGED <<inputs, locals, padding, pod, calls, returned, error>>

\* Line 110, Ok, then lines 114-125
Pass1Ok ==
    /\ pc = "pass1"
    /\ \E sz \in ChildSizes(pod) :
        /\ calls' = Append(calls, Call(pod, padding, "Ok"))
        /\ frames' = <<ChildFrame(sz, 1)>>
        /\ IF is_quadratic(kind)
           THEN /\ pod' = SquarePod(pod, ChildLength(regions, sz))
                /\ pc' = "pass2"
           ELSE /\ pod' = pod
                /\ pc' = "compose"
    /\ UNCHANGED <<inputs, locals, padding, returned, error>>

\* Line 110, Err: the ? operator returns the child's error
Pass1Err ==
    /\ pc = "pass1"
    /\ \E e \in Errors :
        /\ calls' = Append(calls, Call(pod, padding, e))
        /\ error' = {e}
    /\ frames' = <<>>
    /\ pc' = "failed"
    /\ UNCHANGED <<inputs, locals, padding, pod, returned>>

\* Line 126, Ok
Pass2Ok ==
    /\ pc = "pass2"
    /\ \E sz \in ChildSizes(pod) :
        /\ calls' = Append(calls, Call(pod, padding, "Ok"))
        /\ frames' = <<ChildFrame(sz, 2)>>
    /\ pc' = "compose"
    /\ UNCHANGED <<inputs, locals, padding, pod, returned, error>>

\* Mutant: a failure of the second pass is dropped and the first frame kept
Pass2ErrIgnored ==
    /\ pc = "pass2"
    /\ \E e \in Errors : calls' = Append(calls, Call(pod, padding, e))
    /\ pc' = "compose"
    /\ UNCHANGED <<inputs, locals, padding, pod, frames, returned, error>>

\* Line 126, Err
Pass2Err ==
    /\ pc = "pass2"
    /\ \E e \in Errors :
        /\ calls' = Append(calls, Call(pod, padding, e))
        /\ error' = {e}
    /\ frames' = <<>>
    /\ pc' = "failed"
    /\ UNCHANGED <<inputs, locals, padding, pod, returned>>

\* Lines 149-198: fill, stroke, outset, radius, shape element, link
Compose ==
    /\ pc = "compose"
    /\ LET frame == frames[1]
           fill == styles.fill
           s == ResolveStroke(styles)
           o == ResolveOutset(styles, frame)
           sz == OutsetSize(frame, o)
           r == ResolveRadius(styles, sz)
           done == WithLink(WithShape(frame, kind, fill, s, o, sz, r), styles)
       IN  /\ stroke' = s
           /\ outset' = o
           /\ size' = sz
           /\ radius' = r
           /\ frames' = <<done>>
           /\ returned' = <<done>>
    /\ pc' = "done"
    /\ UNCHANGED <<inputs, padding, pod, calls, error>>

Next ==
    \/ BeginChild
    \/ BeginEmpty
    \/ Pass1Ok
    \/ Pass1Err
    \/ Pass2Ok
    \/ Pass2Err
    \/ Compose

Spec == Init /\ [][Next]_vars

SpecStroke == InitStroke /\ [][Next]_vars

SpecGeometry == InitGeometry /\ [][Next]_vars

\* ------------------------------------------------------------ observations
Done == pc = "done"

Failed == pc = "failed"

Result == returned[1]

Fits(a, b) == a.x <= b.x /\ a.y <= b.y

HasShape(f) == \E i \in 1..Len(f.elements) : f.elements[i].elem.tag = "Shape"

HasChild(f, pass) ==
    \E i \in 1..Len(f.elements) :
        /\ f.elements[i].elem.tag = "Child"
        /\ f.elements[i].elem.pass = pass

NoExpand == ~regions.expand.x /\ ~regions.expand.y

\* C1: the frame returned for a Square or Circle has equal width and height,
\* for every region and expand combination, with or without a child.
C1_AspectLock == Done /\ is_quadratic(kind) => Result.size.x = Result.size.y

C1_Witness ==
    /\ Done
    /\ kind = CIRCLE
    /\ child
    /\ regions.first = Size(Pt(200), Pt(100))
    /\ regions.expand = Size(TRUE, FALSE)
    /\ Result.size = Size(Pt(200), Pt(200))

\* C2 as stated: for every kind, region and expand combination the returned
\* frame is component-wise no larger than the region's target.
C2_Original == Done => Fits(Result.size, regions.first)

\* C2 amended: what layout itself sizes is bounded as follows.  Without a
\* child the frame of a Rect or Ellipse fits the target, and the frame of a
\* Square or Circle has sides of at most max(target.x, target.y) and fits the
\* target when no axis expands.  With a child the same bounds hold of the
\* target of the region the returned frame's child was laid out in.
C2_Bounded ==
    Done =>
        LET box == IF child THEN calls[Len(calls)].pod.first ELSE Result.size
            longer == Max(regions.first.x, regions.first.y)
        IN  /\ ~is_quadratic(kind) => Fits(box, regions.first)
            /\ is_quadratic(kind) => Fits(box, SizeSplat(longer))
            /\ is_quadratic(kind) /\ NoExpand => Fits(box, regions.first)

C2_Witness ==
    /\ Done
    /\ ~child
    /\ kind = SQUARE
    /\ regions.first = Size(Pt(200), Pt(100))
    /\ regions.expand = Size(TRUE, TRUE)
    /\ Result.size = Size(Pt(200), Pt(200))

\* C3: without a child the natural size is 45x30 clipped to the target; Rect
\* and Ellipse take the target on an expanding axis and the clipped natural
\* value otherwise; Square and Circle take the larger axis of the
\* expand-target when an axis expands and the smaller clipped natural
\* component otherwise.
C3_ClaimedSize ==
    LET t == regions.first
        e == regions.expand
        nx == IF t.x < Pt(45) THEN t.x ELSE Pt(45)
        ny == IF t.y < Pt(30) THEN t.y ELSE Pt(30)
        ex == IF e.x THEN t.x ELSE 0
        ey == IF e.y THEN t.y ELSE 0
        side == IF e.x \/ e.y
                THEN (IF ex > ey THEN ex ELSE ey)
                ELSE (IF nx < ny THEN nx ELSE ny)
    IN  IF kind \in {SQUARE, CIRCLE}
        THEN Size(side, side)
        ELSE Size(IF e.x THEN t.x ELSE nx, IF e.y THEN t.y ELSE ny)

C3_Examples ==
    /\ regions.first = Size(Pt(500), Pt(500)) /\ NoExpand =>
        /\ kind \in {RECT, ELLIPSE} => Result.size = Size(Pt(45), Pt(30))
        /\ kind \in {SQUARE, CIRCLE} => Result.size = Size(Pt(30), Pt(30))
    /\ regions.first = Size(Pt(200), Pt(100)) /\ regions.expand = Size(TRUE, TRUE) =>
        /\ kind = RECT => Result.size = Size(Pt(200), Pt(100))
        /\ kind \in {SQUARE, CIRCLE} => Result.size = Size(Pt(200), Pt(200))

C3_EmptySizing ==
    Done /\ ~child => Result.size = C3_ClaimedSize /\ C3_Examples

C3_Witness ==
    /\ Done
    /\ ~child
    /\ kind = CIRCLE
    /\ regions.first = Size(Pt(40), Pt(200))
    /\ regions.expand = Size(TRUE, FALSE)
    /\ Result.size = Size(Pt(40), Pt(40))

\* C4: a shape element is emitted exactly when a fill is present or all four
\* resolved stroke sides are present and identical; with no fill and a stroke
\* on the left side only, nothing is emitted while the child's content is
\* still in the returned frame.
C4_AllPresentIdentical ==
    /\ \A n \in SideNames : Side(stroke, n) # {}
    /\ \A n, m \in SideNames : Side(stroke, n) = Side(stroke, m)

C4_LeftOnly ==
    /\ styles.fill = {}
    /\ ~styles.stroke.auto
    /\ styles.stroke.custom.left # {}
    /\ styles.stroke.custom.top = {}
    /\ styles.stroke.custom.right = {}
    /\ styles.stroke.custom.bottom = {}

C4_Emission ==
    Done =>
        /\ HasShape(Result) <=> (styles.fill # {} \/ C4_AllPresentIdentical)
        /\ C4_LeftOnly => ~HasShape(Result)
        /\ child => HasChild(Result, IF is_quadratic(kind) THEN 2 ELSE 1)

C4_Witness ==
    /\ Done
    /\ child
    /\ C4_LeftOnly
    /\ ~HasShape(Result)
    /\ HasChild(Result, 1)

\* C9 as stated: Auto without fill gives every side the default stroke (and
\* the element is emitted), Auto with fill gives no side a stroke, Custom
\* uses the given per-side values, and a side given as none receives a
\* stroke value in its place.
C9_AutoAndGiven ==
    /\ styles.stroke.auto /\ styles.fill = {} =>
        /\ \A n \in SideNames : Side(stroke, n) = {StrokeDefault}
        /\ HasShape(Result)
    /\ styles.stroke.auto /\ styles.fill # {} =>
        \A n \in SideNames : Side(stroke, n) = {}
    /\ ~styles.stroke.auto =>
        \A n \in SideNames : \A raw \in Side(styles.stroke.custom, n) :
            Side(stroke, n) = {unwrap_or_default(raw)}

C9_Original ==
    Done =>
        /\ C9_AutoAndGiven
        /\ ~styles.stroke.auto =>
            \A n \in SideNames :
                Side(styles.stroke.custom, n) = {} => Side(stroke, n) # {}

\* C9 amended: as stated for Auto and for the sides Custom gives a stroke
\* (whose unset paint and thickness take the default stroke's); a side that
\* Custom gives as none stays without a stroke.
C9_Stroke ==
    Done =>
        /\ C9_AutoAndGiven
        /\ ~styles.stroke.auto =>
            \A n \in SideNames :
                Side(styles.stroke.custom, n) = {} => Side(stroke, n) = {}

C9_Witness ==
    /\ Done
    /\ ~styles.stroke.auto
    /\ styles.fill = {}
    /\ styles.stroke.custom = SidesSplat({})
    /\ stroke = SidesSplat({})
    /\ ~HasShape(Result)

\* C5: each outset side is resolved against the pre-outset size of its axis,
\* the final size adds the two opposite outsets per axis, and each radius
\* side is resolved against half of the final size of its axis; 100x100 with
\* outset 10 on every side gives 120x120, and a radius of 50% gives 30.
C5_Axis(n, sz) == IF n \in {"left", "right"} THEN sz.x ELSE sz.y

C5_Example ==
    (/\ Result.size = Size(Pt(100), Pt(100))
     /\ styles.outset = SidesSplat(Relative(0, Pt(10)))) =>
        /\ size = Size(Pt(120), Pt(120))
        /\ styles.radius = SidesSplat(Relative(Percent(50), 0)) =>
            radius = SidesSplat(Pt(30))

C5_Composition ==
    Done =>
        /\ \A n \in SideNames :
            /\ Side(outset, n) =
                relative_to(Side(styles.outset, n), C5_Axis(n, Result.size))
            /\ Side(radius, n) =
                relative_to(Side(styles.radius, n), C5_Axis(n, size) \div 2)
        /\ size.x = Result.size.x + outset.left + outset.right
        /\ size.y = Result.size.y + outset.top + outset.bottom
        /\ C5_Example

C5_Witness ==
    /\ Done
    /\ Result.size = Size(Pt(100), Pt(100))
    /\ styles.outset = SidesSplat(Relative(0, Pt(10)))
    /\ styles.radius = SidesSplat(Relative(Percent(50), 0))
    /\ size = Size(Pt(120), Pt(120))
    /\ radius = SidesSplat(Pt(30))

\* C6 as stated: the inset, outset and radius that layout resolves and uses
\* are non-negative on every side, for every style snapshot and region.
C6_NonNegative(r) == r.rel >= 0 /\ r.abs >= 0

C6_Original ==
    Done =>
        \A n \in SideNames :
            /\ Side(outset, n) >= 0
            /\ Side(radius, n) >= 0
            /\ \A pad \in padding : C6_NonNegative(Side(pad, n))

\* C6 amended: layout clamps nothing.  The inset handed to the child is
\* non-negative when the style's inset is, the resolved outset when the
\* style's outset is, and the resolved radius when the style's outset and
\* radius both are; a negative style value gives a negative length.
C6_StyleNonNegative(sides) == \A n \in SideNames : C6_NonNegative(Side(sides, n))

C6_SignFollowsStyle ==
    Done =>
        /\ C6_StyleNonNegative(styles.inset) =>
            \A pad \in padding : C6_StyleNonNegative(pad)
        /\ C6_StyleNonNegative(styles.outset) =>
            \A n \in SideNames : Side(outset, n) >= 0
        /\ C6_StyleNonNegative(styles.outset) /\ C6_StyleNonNegative(styles.radius) =>
            \A n \in SideNames : Side(radius, n) >= 0
        /\ \A n \in SideNames :
            Side(styles.outset, n) = Relative(0, -Pt(10)) => Side(outset, n) = -Pt(10)

C6_Witness ==
    /\ Done
    /\ child
    /\ styles.outset = SidesOf(Relative(0, -Pt(10)), Relative(Percent(50), 0),
                               Relative(Percent(50), 0), Relative(0, -Pt(10)))
    /\ outset.left = -Pt(10)
    /\ outset.top > 0

\* C10: for Circle and Ellipse with a child, the inset the child is padded
\* with is the style's inset plus the ratio 0.5 - sqrt(2)/4 of the side
\* length on each of the four sides, in both passes; for Square and Rect it
\* is exactly the style's inset.
C10_Expected(n) ==
    LET given == Side(styles.inset, n)
    IN  IF kind \in {CIRCLE, ELLIPSE}
        THEN [rel |-> given.rel + 146447, abs |-> given.abs]
        ELSE given

C10_RoundInset ==
    /\ pc # "start" /\ child =>
        \E pad \in padding : \A n \in SideNames : Side(pad, n) = C10_Expected(n)
    /\ \A i \in 1..Len(calls) : calls[i].padding = padding
    /\ ~child => padding = {}

C10_Witness ==
    /\ Done
    /\ kind = CIRCLE
    /\ Len(calls) = 2
    /\ styles.inset.left = Relative(Percent(50), 0)
    /\ styles.inset.top = Relative(0, Pt(10))
    /\ \E pad \in padding :
        /\ pad.left = Relative(Percent(50) + RoundInsetRatio, 0)
        /\ pad.top = Relative(RoundInsetRatio, Pt(10))

\* C7: layout fails exactly when a child layout call fails, and then returns
\* that call's error unchanged; without a child it never fails.  After the
\* failed call no further child layout is made, no frame is returned, and
\* no shape element or link is attached.
C7_FailedCalls == {i \in 1..Len(calls) : calls[i].outcome # "Ok"}

C7_Propagation ==
    /\ ~child => ~Failed /\ calls = <<>>
    /\ Failed <=> C7_FailedCalls # {}
    /\ Failed =>
        /\ C7_FailedCalls = {Len(calls)}
        /\ error = {calls[Len(calls)].outcome}
        /\ returned = <<>>
        /\ frames = <<>>
        /\ ~ENABLED Next
    /\ ~Failed => error = {}
    /\ ~Failed /\ ~Done => ENABLED Next /\ returned = <<>>
    /\ Done => Len(returned) = 1 /\ returned = frames

C7_Witness ==
    /\ Failed
    /\ Len(calls) = 2
    /\ calls[1].outcome = "Ok"
    /\ error = {"E2"}

\* C8: the first pass lays the padded child out into one region with the
\* outer target, base and expand flags.  Rect and Ellipse make no other child
\* layout and keep its frame.  Square and Circle lay the child out a second
\* time into the region (forced, forced) with both axes expanding, forced
\* being the larger axis of the expand-target if an outer axis expands and
\* min(max(measured width, measured height), target.x, target.y) otherwise,
\* and return the frame of the second pass.
C8_Forced(measured) ==
    LET t == regions.first
        e == regions.expand
        ex == IF e.x THEN t.x ELSE 0
        ey == IF e.y THEN t.y ELSE 0
        larger == IF measured.x > measured.y THEN measured.x ELSE measured.y
        clampX == IF larger < t.x THEN larger ELSE t.x
    IN  IF e.x \/ e.y
        THEN (IF ex > ey THEN ex ELSE ey)
        ELSE (IF clampX < t.y THEN clampX ELSE t.y)

C8_TwoPass ==
    /\ Len(calls) <= 2
    /\ Len(calls) >= 1 =>
        /\ calls[1].pod.first = regions.first
        /\ calls[1].pod.base = regions.base
        /\ calls[1].pod.expand = regions.expand
    /\ pc = "pass2" =>
        /\ kind \in {SQUARE, CIRCLE}
        /\ Len(calls) = 1
        /\ pod.first = SizeSplat(C8_Forced(frames[1].size))
        /\ pod.expand = Size(TRUE, TRUE)
    /\ Len(calls) = 2 => calls[2].pod = pod /\ pod.expand = Size(TRUE, TRUE)
    /\ Done /\ child =>
        IF kind \in {SQUARE, CIRCLE}
        THEN Len(calls) = 2 /\ HasChild(Result, 2) /\ ~HasChild(Result, 1)
        ELSE Len(calls) = 1 /\ HasChild(Result, 1)

C8_Witness ==
    /\ pc = "pass2"
    /\ kind = SQUARE
    /\ NoExpand
    /\ regions.first = Size(Pt(200), Pt(100))
    /\ frames[1].size = Size(Pt(60), Pt(250))
    /\ pod.first = Size(Pt(100), Pt(100))

====
